---- MODULE Spec2Model ----
(***************************************************************************)
(* A model of roshambo.py: the Roshambo match object (constructor and      *)
(* throw), and the per-connection session roshambo_client / one_round      *)
(* that drives one match over a line-based stream.                         *)
(*                                                                         *)
(* Python lists are modelled as sequences: Python index i is index i + 1.  *)
(***************************************************************************)
EXTENDS Integers, Sequences, FiniteSets, TLC

(***************************************************************************)
(* Bounds of the model.                                                    *)
(***************************************************************************)
\* The constructor is called with every rounds argument in -MaxRounds..MaxRounds.
MaxRounds == 6
\* A session reads at most MaxInvalid lines that are not a choice.
MaxInvalid == 2

(***************************************************************************)
(* class Choice, ChoiceMap, class Result                                   *)
(***************************************************************************)
ROCK == 0
PAPER == 1
SCISSORS == 2

Choice == {ROCK, PAPER, SCISSORS}

LOSE == 0
TIE == 1
WIN == 2

Result == {LOSE, TIE, WIN}

\* Python's None (an unset slot of Roshambo.results): equal to no Result
None == -1

ChoiceMap ==
    [c \in Choice |->
        CASE c = ROCK     -> <<PAPER, SCISSORS>>
          [] c = PAPER    -> <<SCISSORS, ROCK>>
          [] c = SCISSORS -> <<ROCK, PAPER>>]

(***************************************************************************)
(* class Roshambo                                                          *)
(***************************************************************************)
\* [None] * n : the empty list when n <= 0
NoneList(n) == [i \in 1..n |-> None]

\* Roshambo.__init__ raises ValueError("rounds must be odd")
InitRaises(rounds) == rounds % 2 = 0

\* The object Roshambo.__init__ builds when it does not raise
RoshamboInit(rounds) ==
    [rounds    |-> rounds,
     round     |-> 0,
     results   |-> NoneList(rounds),
     they_win  |-> FALSE,
     game_over |-> FALSE]

\* Evaluate reading the other entry of ChoiceMap (the choice mine beats)
EvaluateOtherEntry(theirs, mine) ==
    IF mine = theirs THEN TIE
    ELSE IF theirs = ChoiceMap[mine][2] THEN WIN
    ELSE LOSE

\* The outcome of one round, from the human's (theirs) side
Evaluate(theirs, mine) ==
    IF mine = theirs THEN TIE
    ELSE IF theirs = ChoiceMap[mine][1] THEN WIN
    ELSE LOSE

\* CountWins counting every round the human did not lose
CountNotLost(results) ==
    Cardinality({i \in 1..Len(results) : results[i] \in {WIN, TIE}})

\* len([x for x in self.results if x == Result.WIN])
CountWins(results) == Cardinality({i \in 1..Len(results) : results[i] = WIN})

\* A throw without the game_over guard
ThrowRaisesUnguarded(g) ==
    IF g.round >= Len(g.results) THEN "IndexError" ELSE "none"

\* The exception throw raises on object g, "none" when it returns:
\* GameOver on a finished match, IndexError when results has no slot at round.
ThrowRaises(g) ==
    IF g.game_over THEN "GameOver"
    ELSE IF g.round >= Len(g.results) THEN "IndexError"
    ELSE "none"

\* ThrowState finishing the match one round late (> for >=)
ThrowStateLate(g, theirs, mine) ==
    LET res     == Evaluate(theirs, mine)
        results == [g.results EXCEPT ![g.round + 1] = res]
        round   == g.round + 1
    IN  IF round > g.rounds
        THEN [g EXCEPT !.results   = results,
                       !.round     = round,
                       !.game_over = TRUE,
                       !.they_win  = CountWins(results) > (g.rounds \div 2)]
        ELSE [g EXCEPT !.results = results,
                       !.round   = round]

\* ThrowState computing they_win after every round
ThrowStateEager(g, theirs, mine) ==
    LET res     == Evaluate(theirs, mine)
        results == [g.results EXCEPT ![g.round + 1] = res]
        round   == g.round + 1
    IN  [g EXCEPT !.results   = results,
                  !.round     = round,
                  !.game_over = round >= g.rounds,
                  !.they_win  = CountWins(results) > (g.rounds \div 2)]

\* The object after a throw that returns
ThrowState(g, theirs, mine) ==
    LET res     == Evaluate(theirs, mine)
        results == [g.results EXCEPT ![g.round + 1] = res]
        round   == g.round + 1
    IN  IF round >= g.rounds
        THEN [g EXCEPT !.results   = results,
                       !.round     = round,
                       !.game_over = TRUE,
                       !.they_win  = CountWins(results) > (g.rounds \div 2)]
        ELSE [g EXCEPT !.results = results,
                       !.round   = round]

\* The tuple a throw that returns gives back
ThrowReturn(g, theirs, mine) ==
    <<theirs, mine, Evaluate(theirs, mine), ThrowState(g, theirs, mine).they_win>>

(***************************************************************************)
(* Client lines: bytes, one one-character string each                      *)
(***************************************************************************)
CR == "\r"
LF == "\n"
\* The byte 0xff, which no UTF-8 text holds
BadByte == "0xff"

DigitChars == <<"0", "1", "2", "3", "4", "5", "6", "7", "8", "9">>
IsDigit(c) == \E d \in 1..10 : DigitChars[d] = c
DigitValue(c) == (CHOOSE d \in 1..10 : DigitChars[d] = c) - 1

\* The whitespace bytes.strip / str.strip / int() skip
IsSpace(c) == c \in {" ", "\t", CR, LF}

RECURSIVE LStrip(_)
LStrip(b) == IF b # <<>> /\ IsSpace(Head(b)) THEN LStrip(Tail(b)) ELSE b

RECURSIVE RStrip(_)
RStrip(b) ==
    IF b # <<>> /\ IsSpace(b[Len(b)]) THEN RStrip(SubSeq(b, 1, Len(b) - 1)) ELSE b

\* .strip()
Strip(b) == RStrip(LStrip(b))

\* A decode that accepts every byte
DecodeNeverRaises(b) == FALSE

\* raw_choice.decode() raises UnicodeDecodeError
DecodeRaises(b) == \E i \in 1..Len(b) : b[i] = BadByte

\* The digits of a stripped literal, its sign removed
Unsigned(t) == IF t # <<>> /\ Head(t) \in {"+", "-"} THEN Tail(t) ELSE t

RECURSIVE DigitsValue(_, _)
DigitsValue(ds, acc) ==
    IF ds = <<>> THEN acc
    ELSE DigitsValue(Tail(ds), 10 * acc + DigitValue(Head(ds)))

\* The quit test on the line as read, newline and padding included
QuitUnstripped(b) == b = <<"q">>

\* raw_choice.decode().strip() == "q"
QuitRequested(b) == Strip(b) = <<"q">>

\* int(raw_choice) raises ValueError: after stripping whitespace and one
\* sign, anything but a non-empty run of decimal digits
IntRaises(b) ==
    LET u == Unsigned(Strip(b))
    IN  u = <<>> \/ \E i \in 1..Len(u) : ~IsDigit(u[i])

\* An int() that drops the sign
IntValueUnsigned(b) == DigitsValue(Unsigned(Strip(b)), 0)

\* int(raw_choice) when it does not raise
IntValue(b) ==
    LET t == Strip(b)
        v == DigitsValue(Unsigned(t), 0)
    IN  IF Head(t) = "-" THEN 0 - v ELSE v

\* Choice(n) raises ValueError
ChoiceRaises(n) == n \notin Choice

\* repr() of a bytes object
CharRepr(c) ==
    CASE c = CR      -> "\\r"
      [] c = LF      -> "\\n"
      [] c = "\t"    -> "\\t"
      [] c = BadByte -> "\\xff"
      [] OTHER       -> c

RECURSIVE ReprChars(_)
ReprChars(b) == IF b = <<>> THEN "" ELSE CharRepr(Head(b)) \o ReprChars(Tail(b))

BytesRepr(b) == "b'" \o ReprChars(b) \o "'"

\* str(err) of the ValueError that Choice(int(raw_choice)) raises
ValueErrorText(b) ==
    IF IntRaises(b)
    THEN "invalid literal for int() with base 10: " \o BytesRepr(b)
    ELSE ToString(IntValue(b)) \o " is not a valid Choice"

\* Choice.name
ChoiceName(c) ==
    CASE c = ROCK     -> "ROCK"
      [] c = PAPER    -> "PAPER"
      [] c = SCISSORS -> "SCISSORS"

(***************************************************************************)
(* class StringWriter: the output is the sequence of writer.write calls    *)
(***************************************************************************)
\* StringWriter.eol
EOL == "\r\n"

\* StringWriter.writeline
WriteLine(data) == <<data, EOL>>

\* StringWriter.writelines
RECURSIVE WriteLines(_)
WriteLines(data) ==
    IF data = <<>> THEN <<>> ELSE WriteLine(Head(data)) \o WriteLines(Tail(data))

\* "*" * 70
Rule == "**********************************************************************"

\* The round banner of one_round; the source's string is not an f-string,
\* so it is written as it stands whatever the game's round.
RoundBanner(g) == "Round {game.round + 1}"

\* What one_round writes before its first prompt
RoundHeader(g) ==
    WriteLines(<<Rule, RoundBanner(g), Rule>>)
        \o WriteLines(<<"0 - Rock", "1 - Paper", "2 - Scissors">>)

Prompt == "Enter a choice [0-2]: "

\* The sentences for a won and a lost round exchanged
RoundSentenceSwapped(res) ==
    IF res = TIE THEN "This round is tied."
    ELSE IF res = WIN THEN "You lost this round."
    ELSE "You won this round."

\* The sentence for one round's outcome
RoundSentence(res) ==
    IF res = TIE THEN "This round is tied."
    ELSE IF res = WIN THEN "You won this round."
    ELSE "You lost this round."

\* What one_round writes for the tuple res that throw returned
RoundReport(res) ==
    WriteLines(<<"You chose: " \o ChoiceName(res[1]),
                 "Computer chose: " \o ChoiceName(res[2])>>)
        \o WriteLine(RoundSentence(res[3]))

\* What one_round writes for a line that is no choice
InvalidReport(b) == WriteLine("Invalid choice: " \o ValueErrorText(b))

\* The two final messages exchanged
VerdictSwapped(g) == IF g.they_win THEN "You lost the game!" ELSE "You won the game!"

\* The final message of roshambo_client for a finished game
Verdict(g) == IF g.they_win THEN "You won the game!" ELSE "You lost the game!"

(***************************************************************************)
(* State                                                                   *)
(***************************************************************************)
VARIABLES
    arg,      \* a direct caller of Roshambo: the rounds argument it passed
    match,    \* the object the constructor gave it, NoObject when it raised
    calls,    \* how many of its throw calls have returned
    last,     \* its latest call: the exception raised, or the tuple returned
    pc,       \* per connection: the await the session is suspended at
    game,     \* per connection: the session's Roshambo object
    out,      \* per connection: the data written to the writer, in order
    raw,      \* per connection: raw_choice, the bytes of the latest line read
    ateof,    \* per connection: the reader has reached end of stream
    exc,      \* per connection: the latest exception raised in the session
    closed,   \* per connection: writer.close() has been called
    invalid   \* per connection: how many lines that are no choice were read

callervars == <<arg, match, calls, last>>
sessionvars == <<pc, game, out, raw, ateof, exc, closed, invalid>>
vars == <<arg, match, calls, last, pc, game, out, raw, ateof, exc, closed, invalid>>

\* No Roshambo object: the constructor raised, or was not called yet
NoObject == [object |-> FALSE]

RoundsArgs == (0 - MaxRounds)..MaxRounds

\* A call that raised exception e / a call that returned tuple t
Raised(e) == [exc |-> e, ret |-> <<>>]
Returned(t) == [exc |-> "none", ret |-> t]

\* The connections a server may accept
Conns == {1, 2}

\* Roshambo(rounds=3) in roshambo_client
SessionRounds == 3

\* Before any connection is accepted
NoSessions ==
    /\ pc = [s \in Conns |-> "listening"]
    /\ game = [s \in Conns |-> NoObject]
    /\ out = [s \in Conns |-> <<>>]
    /\ raw = [s \in Conns |-> <<>>]
    /\ ateof = [s \in Conns |-> FALSE]
    /\ exc = [s \in Conns |-> "none"]
    /\ closed = [s \in Conns |-> FALSE]
    /\ invalid = [s \in Conns |-> 0]

(***************************************************************************)
(* A direct caller of the class: game = Roshambo(rounds), then throws.     *)
(***************************************************************************)
MatchInit ==
    /\ NoSessions
    /\ \E rounds \in RoundsArgs :
        /\ arg = rounds
        /\ calls = 0
        /\ IF InitRaises(rounds)
           THEN /\ match = NoObject
                /\ last = Raised("ValueError")
           ELSE /\ match = RoshamboInit(rounds)
                /\ last = Returned(<<>>)

\* game.throw(theirs), the computer drawing mine
MatchThrow(theirs, mine) ==
    /\ match # NoObject
    /\ arg' = arg
    /\ IF ThrowRaises(match) # "none"
       THEN /\ last' = Raised(ThrowRaises(match))
            /\ match' = match
            /\ calls' = calls
       ELSE /\ last' = Returned(ThrowReturn(match, theirs, mine))
            /\ match' = ThrowState(match, theirs, mine)
            /\ calls' = calls + 1
    /\ UNCHANGED sessionvars

MatchNext ==
    \E theirs \in Choice, mine \in Choice : MatchThrow(theirs, mine)

SpecMatch == MatchInit /\ [][MatchNext]_vars

(***************************************************************************)
(* The lines a client sends, and what the stream's awaits may give         *)
(***************************************************************************)
Lines ==
    { <<"0", CR, LF>>,        \* ROCK
      <<"1", CR, LF>>,        \* PAPER
      <<" ", "+", "2", LF>>,  \* SCISSORS, signed and padded
      <<"1">>,                \* PAPER, the peer closing before the newline
      <<"5", CR, LF>>,        \* an integer that is no Choice
      <<"-", "1", LF>>,       \* a negative integer
      <<"x", CR, LF>>,        \* no integer
      <<>>,                   \* end of stream: the peer closed
      <<"q", CR, LF>>,        \* quit
      <<" ", "q", " ", LF>>,  \* quit, padded
      <<BadByte, LF>> }       \* not UTF-8

\* StreamReader.readline gives a line, or raises
ReadOutcomes == {"line", "ConnectionResetError", "OtherError"}

\* StreamWriter.drain returns, or raises
DrainOutcomes == {"ok", "ConnectionResetError", "OtherError"}

\* The line ends with its newline; if not, the stream ended after it
EndsWithLF(b) == b # <<>> /\ b[Len(b)] = LF

(***************************************************************************)
(* roshambo_client and one_round: one action per await                     *)
(***************************************************************************)
\* The session's locals kept in one place shared by every connection
SetShared(f, s, v) == [t \in DOMAIN f |-> v]

\* Assignment to a local of session s
Set(f, s, v) == [f EXCEPT ![s] = v]

\* writer.close() only where the function runs to its end
ClosesAtEndOnly(e) == e \in {"none", "Quit"}

\* with closing(writer): writer.close() is called however the block is
\* left, e being the exception that leaves it ("none" on a return)
ClosingCloses(e) == TRUE

\* The session leaves roshambo_client with exception e raised last: caught
\* by one of its except clauses that return, or propagating out of it
Exit(s, e) ==
    /\ pc' = Set(pc, s, "done")
    /\ exc' = Set(exc, s, e)
    /\ closed' = Set(closed, s, closed[s] \/ ClosingCloses(e))

\* A loop that plays another round whatever game.game_over says
LoopHeadUntested(s, g, o) ==
    /\ out' = Set(out, s, o \o RoundHeader(g))
    /\ pc' = Set(pc, s, "drain_header")

\* The head of the loop `while not game.game_over` with game g and output
\* o: the next round's header, or the verdict after the loop
LoopHead(s, g, o) ==
    IF ~g.game_over
    THEN /\ out' = Set(out, s, o \o RoundHeader(g))
         /\ pc' = Set(pc, s, "drain_header")
    ELSE /\ out' = Set(out, s, o \o <<Verdict(g), EOL>>)
         /\ pc' = Set(pc, s, "drain_final")

\* asyncio.start_server calls roshambo_client for a new connection
Accept(s) ==
    /\ pc[s] = "listening"
    /\ IF InitRaises(SessionRounds)
       THEN \* raised before the with block is entered
            /\ pc' = Set(pc, s, "done")
            /\ exc' = Set(exc, s, "ValueError")
            /\ UNCHANGED <<game, out>>
       ELSE /\ game' = Set(game, s, RoshamboInit(SessionRounds))
            /\ LoopHead(s, RoshamboInit(SessionRounds), out[s])
            /\ UNCHANGED exc
    /\ UNCHANGED <<raw, ateof, closed, invalid>>
    /\ UNCHANGED callervars

\* await writer.drain() after the round header (line 111)
DrainHeader(s) ==
    /\ pc[s] = "drain_header"
    /\ \E r \in DrainOutcomes :
        IF r = "ok"
        THEN /\ out' = Set(out, s, Append(out[s], Prompt))
             /\ pc' = Set(pc, s, "drain_prompt")
             /\ UNCHANGED <<exc, closed>>
        ELSE /\ Exit(s, r)
             /\ UNCHANGED out
    /\ UNCHANGED <<game, raw, ateof, invalid>>
    /\ UNCHANGED callervars

\* await writer.drain() after the prompt (line 115)
DrainPrompt(s) ==
    /\ pc[s] = "drain_prompt"
    /\ \E r \in DrainOutcomes :
        IF r = "ok"
        THEN /\ pc' = Set(pc, s, "readline")
             /\ UNCHANGED <<exc, closed>>
        ELSE Exit(s, r)
    /\ UNCHANGED <<game, out, raw, ateof, invalid>>
    /\ UNCHANGED callervars

\* one_round from the line b that readline returned to its next await,
\* the computer drawing mine if the line is a choice
HandleLine(s, b, mine) ==
    /\ raw' = Set(raw, s, b)
    /\ ateof' = Set(ateof, s, ateof[s] \/ ~EndsWithLF(b))
    /\ IF DecodeRaises(b)
       THEN /\ Exit(s, "UnicodeDecodeError")
            /\ UNCHANGED <<game, out, invalid>>
       ELSE IF QuitRequested(b)
       THEN /\ exc' = Set(exc, s, "Quit")
            /\ out' = Set(out, s, out[s] \o <<"Giving up?", EOL>>)
            /\ pc' = Set(pc, s, "drain_final")
            /\ UNCHANGED <<game, closed, invalid>>
       ELSE IF IntRaises(b) \/ ChoiceRaises(IntValue(b))
       THEN /\ invalid[s] < MaxInvalid
            /\ invalid' = Set(invalid, s, invalid[s] + 1)
            /\ out' = Set(out, s, out[s] \o InvalidReport(b))
            /\ pc' = Set(pc, s, "drain_invalid")
            /\ UNCHANGED <<game, exc, closed>>
       ELSE IF ThrowRaises(game[s]) # "none"
       THEN /\ Exit(s, ThrowRaises(game[s]))
            /\ UNCHANGED <<game, out, invalid>>
       ELSE /\ game' = Set(game, s, ThrowState(game[s], IntValue(b), mine))
            /\ out' = Set(out, s,
                   out[s] \o RoundReport(ThrowReturn(game[s], IntValue(b), mine)))
            /\ pc' = Set(pc, s, "drain_report")
            /\ UNCHANGED <<exc, closed, invalid>>

\* await reader.readline() (line 116) and what follows to the next await,
\* the client sending its lines from the set sent
ReadLineOf(s, sent) ==
    /\ pc[s] = "readline"
    /\ \E r \in ReadOutcomes :
        IF r = "line"
        THEN \E b \in (IF ateof[s] THEN {<<>>} ELSE sent), mine \in Choice :
                HandleLine(s, b, mine)
        ELSE /\ Exit(s, r)
             /\ UNCHANGED <<game, out, raw, ateof, invalid>>
    /\ UNCHANGED callervars

\* await reader.readline() with a client that may send any line of Lines
ReadLine(s) == ReadLineOf(s, Lines)

\* await writer.drain() after the round's report (line 136), the break,
\* and the loop head of roshambo_client
DrainReport(s) ==
    /\ pc[s] = "drain_report"
    /\ \E r \in DrainOutcomes :
        IF r = "ok"
        THEN /\ LoopHead(s, game[s], out[s])
             /\ UNCHANGED <<exc, closed>>
        ELSE /\ Exit(s, r)
             /\ UNCHANGED out
    /\ UNCHANGED <<game, raw, ateof, invalid>>
    /\ UNCHANGED callervars

\* await writer.drain() after the invalid-choice message (line 140), and
\* the next turn of `while True`
DrainInvalid(s) ==
    /\ pc[s] = "drain_invalid"
    /\ \E r \in DrainOutcomes :
        IF r = "ok"
        THEN /\ out' = Set(out, s, Append(out[s], Prompt))
             /\ pc' = Set(pc, s, "drain_prompt")
             /\ UNCHANGED <<exc, closed>>
        ELSE /\ Exit(s, r)
             /\ UNCHANGED out
    /\ UNCHANGED <<game, raw, ateof, invalid>>
    /\ UNCHANGED callervars

\* await writer.drain() after the final message (line 164)
DrainFinal(s) ==
    /\ pc[s] = "drain_final"
    /\ \E r \in DrainOutcomes :
        Exit(s, IF r = "ok" THEN exc[s] ELSE r)
    /\ UNCHANGED <<game, out, raw, ateof, invalid>>
    /\ UNCHANGED callervars

SessionStep(s) ==
    \/ Accept(s)
    \/ DrainHeader(s)
    \/ DrainPrompt(s)
    \/ ReadLine(s)
    \/ DrainReport(s)
    \/ DrainInvalid(s)
    \/ DrainFinal(s)

\* A server that no client has reached yet; no direct caller of the class
Init ==
    /\ NoSessions
    /\ arg = SessionRounds
    /\ match = NoObject
    /\ calls = 0
    /\ last = Returned(<<>>)

\* The first connection's session
Next == SessionStep(1)

Spec == Init /\ [][Next]_vars

(***************************************************************************)
(* The server with every connection of Conns: main's start_server runs one *)
(* roshambo_client task per connection, interleaved at their awaits.       *)
(***************************************************************************)
\* The lines the clients of the concurrent server send: a choice, quit,
\* and end of stream (which is no choice)
FewLines == { <<"0", CR, LF>>, <<"q", CR, LF>>, <<>> }

\* await reader.readline() with a client that sends lines of FewLines
ReadFewLines(s) == ReadLineOf(s, FewLines)

ServerStep(s) ==
    \/ Accept(s)
    \/ DrainHeader(s)
    \/ DrainPrompt(s)
    \/ ReadFewLines(s)
    \/ DrainReport(s)
    \/ DrainInvalid(s)
    \/ DrainFinal(s)

ServerNext == \E s \in Conns : ServerStep(s)

SpecServer == Init /\ [][ServerNext]_vars

(***************************************************************************)
(* One session under the event loop's scheduling: a task whose await can   *)
(* complete is resumed, so a step that stays possible is taken.            *)
(***************************************************************************)
\* The lines the client of the fairly scheduled session sends: a choice,
\* a line that is no choice, and quit
LiveLines == { <<"0", CR, LF>>, <<"x", CR, LF>>, <<"q", CR, LF>> }

\* await reader.readline() with a client that sends lines of LiveLines
ReadLiveLines(s) == ReadLineOf(s, LiveLines)

LiveStep(s) ==
    \/ Accept(s)
    \/ DrainHeader(s)
    \/ DrainPrompt(s)
    \/ ReadLiveLines(s)
    \/ DrainReport(s)
    \/ DrainInvalid(s)
    \/ DrainFinal(s)

LiveNext == LiveStep(1)

SpecLive == Init /\ [][LiveNext]_vars /\ WF_vars(LiveNext)

(***************************************************************************)
(* Properties of the Roshambo class, checked under SpecMatch               *)
(***************************************************************************)
\* The beats cycle as the specification states it: <<x, y>> when x beats y
BeatsCycle == {<<ROCK, SCISSORS>>, <<SCISSORS, PAPER>>, <<PAPER, ROCK>>}

\* How many entries of seq equal v
RECURSIVE NumOf(_, _)
NumOf(seq, v) ==
    IF seq = <<>> THEN 0
    ELSE (IF Head(seq) = v THEN 1 ELSE 0) + NumOf(Tail(seq), v)

\* The latest throw returned a tuple
ThrowReturned == last.exc = "none" /\ Len(last.ret) = 4

\* C1: the outcome throw computes, records and returns for (human, computer)
\* is TIE iff the choices are equal, WIN iff the human's choice beats the
\* computer's in the cycle ROCK > SCISSORS > PAPER > ROCK, LOSE iff the
\* computer's beats the human's.
C1_OutcomeByBeatsCycle ==
    ThrowReturned =>
        LET human    == last.ret[1]
            computer == last.ret[2]
            outcome  == last.ret[3]
        IN  /\ outcome \in Result
            /\ outcome = TIE  <=> human = computer
            /\ outcome = WIN  <=> <<human, computer>> \in BeatsCycle
            /\ outcome = LOSE <=> <<computer, human>> \in BeatsCycle
            /\ match.results[match.round] = outcome

C1_Witness ==
    /\ ThrowReturned
    /\ last.ret[1] = ROCK
    /\ last.ret[2] = SCISSORS
    /\ last.ret[3] = WIN

\* C2: a match constructed with an odd rounds >= 1 is not finished after
\* fewer than rounds returned throws, is finished after exactly rounds of
\* them, and every further throw raises GameOver, so no more than rounds
\* throws ever return.
C2_FinishedAfterExactlyRounds ==
    (match # NoObject /\ arg >= 1) =>
        /\ calls <= arg
        /\ match.game_over <=> calls = arg
        /\ calls < arg => ThrowRaises(match) = "none"
        /\ calls = arg => ThrowRaises(match) = "GameOver"
        /\ last.exc = "GameOver" => calls = arg
        /\ last.exc \in {"none", "GameOver"}

C2_Witness ==
    /\ match # NoObject
    /\ arg = 3
    /\ calls = 3
    /\ match.game_over
    /\ last.exc = "GameOver"

\* C3: a constructor call with an even or a non-positive rounds argument
\* raises and leaves no Roshambo object.
C3_BadRoundsRejected ==
    (arg % 2 = 0 \/ arg <= 0) => (match = NoObject /\ last.exc = "ValueError")

\* C4: in a finished match they_win is true exactly when the number of WIN
\* entries of results exceeds rounds // 2, that is when more than half of
\* the rounds are WIN; [WIN, WIN, LOSE] gives true, [LOSE, TIE, LOSE] false.
C4_TheyWinIffMajorityOfWins ==
    (match # NoObject /\ match.game_over) =>
        /\ match.they_win <=> NumOf(match.results, WIN) > match.rounds \div 2
        /\ match.they_win <=> 2 * NumOf(match.results, WIN) > match.rounds
        /\ match.results = <<WIN, WIN, LOSE>> => match.they_win
        /\ match.results = <<LOSE, TIE, LOSE>> => ~match.they_win

C4_Witness ==
    /\ match # NoObject
    /\ match.game_over
    /\ match.results = <<WIN, WIN, LOSE>>
    /\ match.they_win

\* C5: in a finished match the number of rounds the human won differs from
\* the number of rounds the computer won.
C5_NoTieAtMatchLevel ==
    (match # NoObject /\ match.game_over) =>
        NumOf(match.results, WIN) # NumOf(match.results, LOSE)

(***************************************************************************)
(* Properties of a session, checked under Spec                             *)
(***************************************************************************)
\* The lines of Lines by what the protocol says they are
ChoiceLines == { <<"0", CR, LF>>, <<"1", CR, LF>>, <<" ", "+", "2", LF>>, <<"1">> }
NoChoiceLines == { <<"5", CR, LF>>, <<"-", "1", LF>>, <<"x", CR, LF>> }
QuitLines == { <<"q", CR, LF>>, <<" ", "q", " ", LF>> }
UndecodableLines == { <<BadByte, LF>> }
EndOfStream == <<>>

\* The choice a line of ChoiceLines encodes
EncodedChoice(b) ==
    CASE b = <<"0", CR, LF>>       -> ROCK
      [] b = <<"1", CR, LF>>       -> PAPER
      [] b = <<"1">>               -> PAPER
      [] b = <<" ", "+", "2", LF>> -> SCISSORS

\* The message a line of NoChoiceLines is answered with
InvalidChoiceMessage(b) ==
    CASE b = <<"5", CR, LF>>  -> "Invalid choice: 5 is not a valid Choice"
      [] b = <<"-", "1", LF>> -> "Invalid choice: -1 is not a valid Choice"
      [] b = <<"x", CR, LF>>  ->
           "Invalid choice: invalid literal for int() with base 10: b'x\\r\\n'"

YouChoseMessages == {"You chose: ROCK", "You chose: PAPER", "You chose: SCISSORS"}
VerdictMessages == {"You won the game!", "You lost the game!"}

\* How many chunks of output o are in the set msgs
NumIn(o, msgs) == Cardinality({i \in 1..Len(o) : o[i] \in msgs})

\* The session s takes a step
Steps(s) == pc'[s] # pc[s]

\* In this step session s is handed a line by readline: raw'[s]
GotLine(s) ==
    /\ pc[s] = "readline"
    /\ pc'[s] # "readline"
    /\ exc'[s] \notin {"ConnectionResetError", "OtherError"}

\* C6: a line that is no integer, or an integer outside 0..2, is answered
\* with one invalid-choice message and leaves the match as it was; the
\* prompt is then sent again; rounds are consumed only by lines that are
\* choices, each playing exactly one round with the choice it encodes
\* ('5' then '1' plays one round, as PAPER).
C6_InvalidLineConsumesNoRound ==
    /\ [](\A s \in Conns : pc[s] # "listening" =>
            /\ NumIn(out[s], YouChoseMessages) = game[s].round
            /\ (raw[s] \in NoChoiceLines /\ pc[s] = "drain_invalid") =>
                    out[s][Len(out[s]) - 1] = InvalidChoiceMessage(raw[s]))
    /\ [][\A s \in Conns :
            /\ (GotLine(s) /\ raw'[s] \in NoChoiceLines) =>
                    /\ game'[s] = game[s]
                    /\ out'[s] = out[s] \o <<InvalidChoiceMessage(raw'[s]), EOL>>
                    /\ pc'[s] = "drain_invalid"
            /\ (pc[s] = "drain_invalid" /\ Steps(s)) =>
                    /\ game'[s] = game[s]
                    /\ \/ /\ out'[s] = Append(out[s], Prompt)
                          /\ pc'[s] = "drain_prompt"
                       \/ /\ out'[s] = out[s]
                          /\ pc'[s] = "done"
            /\ (GotLine(s) /\ raw'[s] \in ChoiceLines) =>
                    /\ game'[s].round = game[s].round + 1
                    /\ Len(out'[s]) = Len(out[s]) + 6
                    /\ out'[s][Len(out[s]) + 1] =
                           "You chose: " \o ChoiceName(EncodedChoice(raw'[s]))
                    /\ pc'[s] = "drain_report"
       ]_vars

C6_Witness ==
    /\ raw[1] = <<"1", CR, LF>>
    /\ invalid[1] = 1
    /\ game[1].round = 1
    /\ Len(out[1]) = 22
    /\ out[1][14] = "Invalid choice: 5 is not a valid Choice"
    /\ out[1][16] = Prompt
    /\ out[1][17] = "You chose: PAPER"

\* C7: a line that is 'q' once trimmed, at any prompt, plays no round, is
\* answered with 'Giving up?' and nothing else, and the session then only
\* closes its stream: no verdict is ever sent in it.
C7_QuitGivesUp ==
    /\ [](\A s \in Conns : raw[s] \in QuitLines =>
            /\ pc[s] \in {"drain_final", "done"}
            /\ ~game[s].game_over
            /\ NumIn(out[s], VerdictMessages) = 0
            /\ SubSeq(out[s], Len(out[s]) - 1, Len(out[s])) = <<"Giving up?", EOL>>
            /\ pc[s] = "done" => closed[s])
    /\ [][\A s \in Conns :
            /\ (GotLine(s) /\ raw'[s] \in QuitLines) =>
                    /\ game'[s] = game[s]
                    /\ out'[s] = out[s] \o <<"Giving up?", EOL>>
                    /\ pc'[s] = "drain_final"
            /\ (raw[s] \in QuitLines /\ Steps(s)) =>
                    /\ game'[s] = game[s]
                    /\ out'[s] = out[s]
                    /\ pc'[s] = "done"
                    /\ closed'[s]
       ]_vars

C7_Witness ==
    /\ raw[1] = <<" ", "q", " ", LF>>
    /\ invalid[1] = 1
    /\ game[1].round = 2
    /\ pc[1] = "done"
    /\ closed[1]
    /\ exc[1] = "Quit"

\* C8: a read that returns end of stream ends the session there: no round
\* is played, nothing more is written, and the stream is closed.
C8_EndOfStreamEndsSession ==
    [][\A s \in Conns :
        (GotLine(s) /\ raw'[s] = EndOfStream) =>
            /\ game'[s] = game[s]
            /\ out'[s] = out[s]
            /\ pc'[s] = "done"
            /\ closed'[s]
      ]_vars

\* C9: when an await raises ConnectionResetError, or the line read cannot
\* be decoded, the session ends in that step with its stream closed,
\* writing nothing and playing nothing; an ended session does nothing more.
C9_StreamFailureEndsSilently ==
    [][\A s \in Conns :
        /\ (GotLine(s) /\ raw'[s] \in UndecodableLines) =>
                exc'[s] = "UnicodeDecodeError"
        /\ (pc[s] # "done"
                /\ exc'[s] \in {"ConnectionResetError", "UnicodeDecodeError"}) =>
                /\ game'[s] = game[s]
                /\ out'[s] = out[s]
                /\ pc'[s] = "done"
                /\ closed'[s]
        /\ pc[s] = "done" =>
                /\ game'[s] = game[s]
                /\ out'[s] = out[s]
                /\ pc'[s] = "done"
                /\ closed'[s] = closed[s]
      ]_vars

C9_Witness ==
    /\ pc[1] = "done"
    /\ exc[1] = "UnicodeDecodeError"
    /\ raw[1] = <<BadByte, LF>>
    /\ game[1].round = 1
    /\ closed[1]
    /\ out[1][Len(out[1])] = Prompt

\* C10: a session that has ended, however it ended, has closed its writer.
C10_EndedSessionIsClosed ==
    \A s \in Conns : pc[s] = "done" => closed[s]

C10_Witness ==
    /\ pc[1] = "done"
    /\ exc[1] = "OtherError"
    /\ game[1].round = 2
    /\ closed[1]

(***************************************************************************)
(* Properties of concurrent sessions, checked under SpecServer             *)
(***************************************************************************)
\* Everything session s owns
Local(s) == <<pc[s], game[s], out[s], raw[s], ateof[s], exc[s], closed[s], invalid[s]>>

\* C11: every step is a step of one session and changes nothing another
\* session owns (its Match, its output, its position); whatever the other
\* sessions are doing - blocked at a read, failed, ended - a session that
\* has not ended can take its next step, and a connection not yet accepted
\* can be accepted.
C11_SessionsDoNotInterfere ==
    /\ [](\A t \in Conns :
            /\ pc[t] = "listening" => ENABLED Accept(t)
            /\ pc[t] # "done" => ENABLED ServerStep(t))
    /\ [][\E s \in Conns :
            /\ Local(s)' # Local(s)
            /\ \A t \in Conns \ {s} : Local(t)' = Local(t)
       ]_vars

C11_Witness ==
    /\ pc[1] = "readline"
    /\ game[1].round = 0
    /\ pc[2] = "done"
    /\ game[2].game_over
    /\ exc[2] = "none"
    /\ closed[2]
    /\ ~closed[1]

(***************************************************************************)
(* Further properties of a session, checked under Spec                     *)
(***************************************************************************)
\* C12: the header written before a round is a rule, the banner 'Round N'
\* with N the number of the round about to be played (round + 1), a rule,
\* and the three choice labels.
C12_BannerNumbersTheRound ==
    \A s \in Conns : pc[s] = "drain_header" =>
        SubSeq(out[s], Len(out[s]) - 11, Len(out[s])) =
            << Rule, EOL,
               "Round " \o ToString(game[s].round + 1), EOL,
               Rule, EOL,
               "0 - Rock", EOL,
               "1 - Paper", EOL,
               "2 - Scissors", EOL >>

RoundSentences ==
    {"This round is tied.", "You won this round.", "You lost this round."}

\* C13: a session writes at most one verdict; it writes it in the step
\* that follows the report of the round that finished the match (unless
\* that await raises), so only with SessionRounds rounds played and right
\* after the last round's report; the verdict is 'You won the game!' iff
\* they_win; it is never written in a session that wrote 'Giving up?';
\* after it the session only ends.
C13_OneVerdictWhenFinished ==
    /\ [](\A s \in Conns : pc[s] # "listening" =>
            LET o == out[s]
                n == Len(o)
            IN  /\ NumIn(o, VerdictMessages) <= 1
                /\ NumIn(o, VerdictMessages) = 1 <=>
                        (game[s].game_over /\ pc[s] \in {"drain_final", "done"}
                            /\ exc[s] = "none")
                     \/ (game[s].game_over /\ pc[s] = "done"
                            /\ exc[s] # "none" /\ o[n - 1] \in VerdictMessages)
                /\ NumIn(o, VerdictMessages) = 1 =>
                        /\ game[s].round = SessionRounds
                        /\ NumIn(o, YouChoseMessages) = SessionRounds
                        /\ NumIn(o, {"Giving up?"}) = 0
                        /\ o[n] = EOL
                        /\ o[n - 1] = (IF game[s].they_win
                                       THEN "You won the game!"
                                       ELSE "You lost the game!")
                        /\ o[n - 3] \in RoundSentences)
    /\ [][\A s \in Conns :
            /\ (pc[s] = "drain_report" /\ game[s].game_over /\ Steps(s)) =>
                    \/ /\ pc'[s] = "drain_final"
                       /\ Len(out'[s]) = Len(out[s]) + 2
                       /\ out'[s][Len(out[s]) + 1] \in VerdictMessages
                    \/ /\ pc'[s] = "done"
                       /\ out'[s] = out[s]
                       /\ exc'[s] \in {"ConnectionResetError", "OtherError"}
            /\ (pc[s] = "drain_final" /\ Steps(s)) =>
                    /\ pc'[s] = "done"
                    /\ out'[s] = out[s]
       ]_vars

C13_Witness ==
    /\ pc[1] = "done"
    /\ exc[1] = "none"
    /\ game[1].they_win
    /\ game[1].results = <<WIN, LOSE, WIN>>
    /\ out[1][Len(out[1]) - 1] = "You won the game!"
    /\ closed[1]

\* C14: no session ever has GameOver (or any other exception of throw)
\* raised in it: a session waiting for a line, the only place where it
\* calls throw, holds an unfinished match with a free slot.
C14_SessionNeverThrowsOnFinishedMatch ==
    \A s \in Conns :
        /\ exc[s] \notin {"GameOver", "IndexError"}
        /\ pc[s] \in {"drain_header", "drain_prompt", "readline", "drain_invalid"} =>
                /\ ~game[s].game_over
                /\ ThrowRaises(game[s]) = "none"

C14_Witness ==
    /\ pc[1] = "drain_final"
    /\ game[1].game_over
    /\ invalid[1] = 2
    /\ exc[1] = "none"
    /\ raw[1] \in ChoiceLines

(***************************************************************************)
(* Further properties of the Roshambo class, checked under SpecMatch       *)
(***************************************************************************)
\* The slots of results with index below round hold an outcome, the others
\* are unset
SlotsFilledBelowRound(g) ==
    \A i \in 1..Len(g.results) :
        IF i <= g.round THEN g.results[i] \in Result ELSE g.results[i] = None

\* C15: in every state of a Roshambo object 0 <= round <= rounds, the slots
\* below round hold outcomes and the others are unset; a throw that returns
\* adds exactly 1 to round and writes only the slot at the old round.
C15_RoundCountsFilledSlots ==
    /\ [](match # NoObject =>
            /\ 0 <= match.round
            /\ match.round <= match.rounds
            /\ SlotsFilledBelowRound(match))
    /\ [][calls' # calls =>
            /\ match'.round = match.round + 1
            /\ match'.results[match.round + 1] \in Result
            /\ \A i \in 1..Len(match.results) :
                    i # match.round + 1 => match'.results[i] = match.results[i]
       ]_vars

\* C16: game_over is true exactly when round = rounds; once true it stays
\* true; a throw on a finished match raises GameOver and leaves the whole
\* object (round, results, game_over, they_win) as it was.
C16_FinishedIsTerminal ==
    /\ [](match # NoObject => (match.game_over <=> match.round = match.rounds))
    /\ [][(match # NoObject /\ match.game_over) =>
            /\ match' = match
            /\ last'.exc = "GameOver"
            /\ calls' = calls
       ]_vars

C16_Witness ==
    /\ match # NoObject
    /\ arg = 5
    /\ match.game_over
    /\ match.round = 5
    /\ last.exc = "GameOver"
    /\ calls = 5

\* C19: they_win is never true in an unfinished match, and a throw that
\* returns without finishing the match returns False as its fourth element.
C19_NoWinnerBeforeFinish ==
    match # NoObject =>
        /\ match.they_win => match.game_over
        /\ (ThrowReturned /\ ~match.game_over) => last.ret[4] = FALSE

C19_Witness ==
    /\ match # NoObject
    /\ arg = 3
    /\ ThrowReturned
    /\ ~match.game_over
    /\ match.results = <<WIN, WIN, None>>
    /\ last.ret[4] = FALSE

(***************************************************************************)
(* The order of a session's messages, checked under Spec                   *)
(***************************************************************************)
\* h is a round's header: rule, banner line, rule, the three labels
IsHeader(h) ==
    /\ Len(h) = 12
    /\ \A i \in 1..6 : h[2 * i] = EOL
    /\ h[1] = Rule
    /\ h[3] \notin {Rule, Prompt, EOL}
    /\ h[5] = Rule
    /\ h[7] = "0 - Rock"
    /\ h[9] = "1 - Paper"
    /\ h[11] = "2 - Scissors"

\* What o2 has after its prefix o1
Added(o1, o2) == SubSeq(o2, Len(o1) + 1, Len(o2))

\* The choice a 'Computer chose' line names
ComputerChoice(m) ==
    CASE m = "Computer chose: ROCK"     -> ROCK
      [] m = "Computer chose: PAPER"    -> PAPER
      [] m = "Computer chose: SCISSORS" -> SCISSORS

ComputerChoseMessages ==
    {"Computer chose: ROCK", "Computer chose: PAPER", "Computer chose: SCISSORS"}

\* The sentence the protocol gives for human choice h against computer c
ExpectedSentence(h, c) ==
    IF h = c THEN "This round is tied."
    ELSE IF <<h, c>> \in BeatsCycle THEN "You won this round."
    ELSE "You lost this round."

\* The session s ends in this step on a failed await, writing nothing
EndsOnFailure(s) ==
    /\ pc'[s] = "done"
    /\ out'[s] = out[s]
    /\ exc'[s] \in {"ConnectionResetError", "OtherError"}

\* C17: the header (banner and labels) is written once per round, first
\* thing in the round, and is followed by the first prompt; every line is
\* read right after one prompt; an invalid line is followed by its message
\* and the prompt only; a choice is followed by its three report lines,
\* the round sentence matching the two choices reported, and only then by
\* the next header or the verdict.
C17_MessagesFollowProtocolOrder ==
    /\ [](\A s \in Conns : pc[s] # "listening" =>
            LET o == out[s]
                n == Len(o)
                headers == NumIn(o, {"0 - Rock"})
            IN  /\ IsHeader(SubSeq(o, 1, 12))
                /\ NumIn(o, {Rule}) = 2 * headers
                /\ headers \in {game[s].round, game[s].round + 1}
                /\ pc[s] \in {"drain_header", "drain_prompt", "readline",
                              "drain_invalid"} => headers = game[s].round + 1
                /\ pc[s] = "drain_report" => headers = game[s].round
                /\ pc[s] \in {"drain_prompt", "readline"} =>
                        (o[n] = Prompt /\ o[n - 1] = EOL))
    /\ [][\A s \in Conns :
            /\ (pc[s] = "listening" /\ Steps(s)) =>
                    (IsHeader(out'[s]) /\ pc'[s] = "drain_header")
            /\ (pc[s] \in {"drain_header", "drain_invalid"} /\ Steps(s)) =>
                    \/ (Added(out[s], out'[s]) = <<Prompt>> /\ pc'[s] = "drain_prompt")
                    \/ EndsOnFailure(s)
            /\ (pc[s] = "drain_prompt" /\ Steps(s)) =>
                    \/ (out'[s] = out[s] /\ pc'[s] = "readline")
                    \/ EndsOnFailure(s)
            /\ (GotLine(s) /\ raw'[s] \in NoChoiceLines) =>
                    /\ Len(Added(out[s], out'[s])) = 2
                    /\ out'[s][Len(out'[s])] = EOL
                    /\ pc'[s] = "drain_invalid"
            /\ (GotLine(s) /\ raw'[s] \in ChoiceLines) =>
                    LET a == Added(out[s], out'[s])
                    IN  /\ Len(a) = 6
                        /\ a[2] = EOL /\ a[4] = EOL /\ a[6] = EOL
                        /\ a[1] = "You chose: " \o ChoiceName(EncodedChoice(raw'[s]))
                        /\ a[3] \in ComputerChoseMessages
                        /\ a[5] = ExpectedSentence(EncodedChoice(raw'[s]),
                                                   ComputerChoice(a[3]))
                        /\ pc'[s] = "drain_report"
            /\ (pc[s] = "drain_report" /\ Steps(s)) =>
                    \/ /\ ~game[s].game_over
                       /\ IsHeader(Added(out[s], out'[s]))
                       /\ pc'[s] = "drain_header"
                    \/ /\ game[s].game_over
                       /\ Len(Added(out[s], out'[s])) = 2
                       /\ Added(out[s], out'[s])[1] \in VerdictMessages
                       /\ pc'[s] = "drain_final"
                    \/ EndsOnFailure(s)
       ]_vars

C17_Witness ==
    /\ pc[1] = "drain_header"
    /\ game[1].round = 1
    /\ invalid[1] = 1
    /\ Len(out[1]) = 34
    /\ out[1][13] = Prompt
    /\ out[1][16] = Prompt
    /\ out[1][17] \in YouChoseMessages
    /\ out[1][21] = "You won this round."
    /\ IsHeader(SubSeq(out[1], 23, 34))

(***************************************************************************)
(* Termination of a session, checked under SpecLive                        *)
(***************************************************************************)
\* The client of session s has sent SessionRounds choices, or a quit
ClientHasFinished(s) ==
    game[s].round = SessionRounds \/ raw[s] \in QuitLines

\* C18: once the client has sent SessionRounds choices or one 'q', the
\* session reaches its end with the writer closed, having played at most
\* SessionRounds rounds and prompted for nothing more; lines that are no
\* choice, sent before, do not change this.
C18_SessionTerminates ==
    /\ [](pc[1] # "listening" =>
            /\ game[1].round <= SessionRounds
            /\ ClientHasFinished(1) => pc[1] \in {"drain_report", "drain_final", "done"})
    /\ (pc[1] # "listening" /\ ClientHasFinished(1)) ~>
            /\ pc[1] = "done"
            /\ closed[1]
            /\ game[1].round <= SessionRounds
            /\ NumIn(out[1], {Prompt}) <= SessionRounds + invalid[1]

C18_Witness ==
    /\ pc[1] = "done"
    /\ closed[1]
    /\ exc[1] = "none"
    /\ game[1].round = SessionRounds
    /\ invalid[1] = 2
    /\ NumIn(out[1], {Prompt}) = 5

====
